---- MODULE Spec2Model ----
(***************************************************************************)
(* Completion engine (chatWithGemini), the SQLite tables it reads and      *)
(* writes, and the admin routes that touch the same tables.                *)
(*                                                                         *)
(* Node runs one JavaScript job at a time and better-sqlite3 is            *)
(* synchronous, so the code between two awaits is one atomic step.  The    *)
(* only suspension points of chatWithGemini are the two                    *)
(* `await chat.sendMessage(...)`; every action below is one such stretch   *)
(* of synchronous code.                                                    *)
(***************************************************************************)
EXTENDS Integers, Sequences, FiniteSets, TLC

VARIABLES
    now,          \* the wall clock, in milliseconds (Date.now())
    gemini_keys,  \* table gemini_keys: set of rows
    memories,     \* table memories: set of rows
    bot_logs,     \* table bot_logs: set of rows
    call,         \* per request slot: the locals of one chatWithGemini run
    started,      \* number of chatWithGemini calls started so far
    admin,        \* number of admin requests served so far
    usage,        \* history of `UPDATE gemini_keys SET last_used_at`:
                  \* <<key id, clock, how the call ended>>
    personalities,          \* table personalities: set of rows
    platform_integrations,  \* table platform_integrations: set of rows
    http,         \* the last request to a persona or webhook route and its
                  \* HTTP response
    task,         \* the detached processIncomingMessage of that request
    wire          \* requests sent to the platform API, oldest first

\* The state of the persona routes and of the webhook receivers.
restVars == <<personalities, platform_integrations, http, task, wire>>

vars == <<now, gemini_keys, memories, bot_logs, call, started, admin, usage,
          personalities, platform_integrations, http, task, wire>>

----------------------------------------------------------------------------
(* Bounds of the model *)

ClockStart == 9     \* clock reading in the initial state
MaxTicks == 1       \* milliseconds that may pass in Spec
MaxAdmin == 1       \* admin requests served in Spec
ISOWidth == 2       \* digits of the scaled-down toISOString()

(* Program constants *)

MemoryLimit == 50   \* newHistory.slice(-50)
ContextLimit == 20  \* history.slice(-20)

Owners == {"o1", "o2"}
Callers == {"o1"}   \* owners whose requests reach chatWithGemini
ChatIds == {"a", "b"}
Slots == {"c1", "c2"}
Prompts == {"p1", "p2"}

\* Each request slot sends its own prompt text, so that the writes of two
\* concurrent calls can be told apart.
PromptOf(c) == IF c = "c1" THEN "p1" ELSE "p2"

NULL == <<>>        \* SQL NULL / JS undefined for a column or a row

----------------------------------------------------------------------------
(* Values *)

Min(a, b) == IF a <= b THEN a ELSE b

RECURSIVE Pow10(_)
Pow10(n) == IF n = 0 THEN 1 ELSE 10 * Pow10(n - 1)

\* new Date().toISOString(): a fixed-width, zero-padded text, most significant
\* field first (here ISOWidth decimal digits instead of 24 characters).
toISOString(t) == [i \in 1..ISOWidth |-> (t \div Pow10(ISOWidth - i)) % 10]

\* SQLite compares TEXT bytewise (memcmp): lexicographic order.
TextLess(a, b) ==
    \/ \E i \in 1..Min(Len(a), Len(b)) :
          /\ \A j \in 1..(i - 1) : a[j] = b[j]
          /\ a[i] < b[i]
    \/ /\ Len(a) < Len(b)
       /\ \A j \in 1..Len(a) : a[j] = b[j]

\* ORDER BY last_used_at ASC: NULL sorts before every value.
OrderByAsc(a, b) ==
    \/ a = NULL
    \/ b # NULL /\ (a = b \/ TextLess(a, b))

\* Array.prototype.slice(-n)
SliceLast(s, n) ==
    IF Len(s) <= n THEN s ELSE SubSeq(s, Len(s) - n + 1, Len(s))

Turn(role, content) == [role |-> role, content |-> content]

\* What the provider may answer to one sendMessage: text() and the number of
\* functionCalls() of the response.
ProviderResponses ==
    { [text |-> "ok", calls |-> 0],
      [text |-> "",   calls |-> 0],
      [text |-> "",   calls |-> 1] }

----------------------------------------------------------------------------
(* Tables *)

KeyRow(id, owner, status, last) ==
    [id |-> id, user_id |-> owner, status |-> status, last_used_at |-> last]

MemoryRow(id, chat, context, owner) ==
    [id |-> id, chat_id |-> chat, context |-> context, user_id |-> owner]

LogRow(id, prompt, chat, response, raw, key, owner) ==
    [id |-> id, request_payload |-> [prompt |-> prompt, chatId |-> chat],
     response_payload |-> response, raw_response |-> raw,
     api_key_used |-> key, user_id |-> owner]

\* SELECT * FROM gemini_keys WHERE user_id = ? AND status = 'active'
ActiveKeysMutNoStatus(userId) ==
    {k \in gemini_keys : k.user_id = userId}

ActiveKeysMutNoOwner(userId) ==
    {k \in gemini_keys : k.status = "active"}

ActiveKeys(userId) ==
    {k \in gemini_keys : k.user_id = userId /\ k.status = "active"}

\* ... ORDER BY last_used_at ASC: every order of the selected rows that is
\* ascending in last_used_at; rows with equal values come in any order.
Orderings(rows) ==
    LET n == Cardinality(rows)
    IN  {s \in [1..n -> rows] :
           /\ \A i, j \in 1..n : i # j => s[i] # s[j]
           /\ \A i \in 1..(n - 1) :
                 OrderByAsc(s[i].last_used_at, s[i + 1].last_used_at)}

\* SELECT * FROM memories WHERE user_id = ? AND chat_id = ?
MemoryOf(userId, chatId) ==
    {m \in memories : m.user_id = userId /\ m.chat_id = chatId}

\* UPDATE gemini_keys SET last_used_at = ? WHERE id = ?
MarkUsedMutNoWhere(id, t) ==
    {[k EXCEPT !.last_used_at = toISOString(t)] : k \in gemini_keys}

MarkUsed(id, t) ==
    {IF k.id = id THEN [k EXCEPT !.last_used_at = toISOString(t)] ELSE k
       : k \in gemini_keys}

----------------------------------------------------------------------------
(* Initial state *)

\* No request has arrived and no background task runs.
NoRequest == [pc |-> "none"]

NoTask == [pc |-> "none"]

\* Nothing has happened yet on the persona routes and the webhook receivers.
RestIdle ==
    /\ personalities = {}
    /\ platform_integrations = {}
    /\ http = NoRequest
    /\ task = NoTask
    /\ wire = <<>>

IdleCall ==
    [pc |-> "idle", userId |-> "", chatId |-> "", prompt |-> "",
     keys |-> <<>>, memoryRecord |-> NULL, history |-> <<>>, i |-> 0,
     responseText |-> "", usedKeyId |-> "", lastError |-> "",
     rawResponse |-> <<>>, thrown |-> "",
     outcomes |-> <<>>, concurrent |-> {}]

\* Key tables the program can hold when the first request arrives.  Rows are
\* inserted with status 'active' and last_used_at NULL (POST /api/keys); a
\* status other than 'active' is set by hand in the database.
InitKeyTables ==
    { { KeyRow("k1", "o1", "active", NULL), KeyRow("k2", "o1", "active", NULL),
        KeyRow("k3", "o1", "active", toISOString(ClockStart)),
        KeyRow("k4", "o2", "active", NULL), KeyRow("k5", "o1", "revoked", NULL) },
      { KeyRow("k1", "o1", "revoked", NULL), KeyRow("k4", "o2", "active", NULL) } }

\* A stored conversation of n turns written by earlier calls.
SeedHistory(n) ==
    [i \in 1..n |-> IF i % 2 = 1 THEN Turn("user", "p1") ELSE Turn("model", "ok")]

InitMemories ==
    { { MemoryRow(<<"mem", 0>>, "a", SeedHistory(2), "o1"),
        MemoryRow(<<"mem", 1>>, "a", SeedHistory(2), "o2") } }

Init ==
    /\ now = ClockStart
    /\ gemini_keys \in InitKeyTables
    /\ memories \in InitMemories
    /\ bot_logs = {}
    /\ call = [c \in Slots |-> IdleCall]
    /\ started = 0
    /\ admin = 0
    /\ usage = <<>>
    /\ RestIdle

----------------------------------------------------------------------------
(* chatWithGemini *)

InFlight(c) == call[c].pc \in {"await1", "await2"}

\* The call is over: its result (or error) goes to the caller and its other
\* locals are garbage.
Ended(cl, pc, thrown) ==
    [IdleCall EXCEPT !.pc = pc, !.thrown = thrown, !.userId = cl.userId,
                     !.responseText = cl.responseText, !.usedKeyId = cl.usedKeyId]

\* if (keys.length === 0) throw
NoKeys(keys) == Len(keys) = 0

\* Lines 28-75: select the keys, load the memory, enter the loop and issue
\* the first sendMessage of the first key.
Begin(c, userId, chatId, prompt) ==
    /\ ~InFlight(c)
    /\ \E keys \in Orderings(ActiveKeys(userId)) :
         LET recs == MemoryOf(userId, chatId)
             memoryRecord == IF recs = {} THEN NULL ELSE (CHOOSE m \in recs : TRUE)
             history == IF recs = {} THEN <<>> ELSE memoryRecord.context
             base == [IdleCall EXCEPT !.userId = userId, !.chatId = chatId,
                                      !.prompt = prompt]
             running == {d \in Slots \ {c} : InFlight(d)}
         IN  call' =
               IF NoKeys(keys)
               THEN [call EXCEPT ![c] =
                       Ended(base, "threw", "No active Gemini API keys found")]
               ELSE [d \in Slots |->
                       IF d = c
                       THEN [base EXCEPT !.pc = "await1",
                                         !.keys = [i \in 1..Len(keys) |-> keys[i].id],
                                         !.memoryRecord =
                                            IF recs = {} THEN NULL ELSE memoryRecord.id,
                                         !.history = history,
                                         !.i = 1,
                                         !.concurrent =
                                            {<<call[e].userId, call[e].chatId>>
                                               : e \in running}]
                       ELSE IF d \in running
                            THEN [call[d] EXCEPT !.concurrent =
                                    call[d].concurrent \cup {<<userId, chatId>>}]
                            ELSE call[d]]
    /\ UNCHANGED <<now, gemini_keys, memories, bot_logs>>

\* catch (e): lines 106-116 log the error and go on to the next key, whatever
\* the error says; no row of gemini_keys is touched.
KeysAfterErrorMutDeactivates(keyObj) ==
    {IF k.id = keyObj THEN [k EXCEPT !.status = "rate_limited"] ELSE k
       : k \in gemini_keys}

KeysAfterError(keyObj) == gemini_keys

\* catch (e): lines 106-116, then the next loop iteration (lines 49-75) or,
\* after the last key, lines 119-121.
NextCandidateMutRepeats(i) == i

NextCandidate(i) == i + 1

ProviderError(c) ==
    /\ InFlight(c)
    /\ LET cl == call[c]
           failed == [cl EXCEPT !.lastError = "error",
                                !.outcomes = Append(cl.outcomes, "fail")]
       IN  call' = [call EXCEPT ![c] =
             IF cl.i < Len(cl.keys)
             THEN [failed EXCEPT !.pc = "await1", !.i = NextCandidate(cl.i)]
             ELSE Ended(failed, "threw", "All API keys failed")]
    /\ gemini_keys' = KeysAfterError(call[c].keys[call[c].i])
    /\ UNCHANGED <<now, memories, bot_logs>>

\* Lines 76-96: the first response asks for tools; a placeholder result is
\* sent back in a second sendMessage.
MayFollowUpMutChains(pc) == pc \in {"await1", "await2"}

MayFollowUp(pc) == pc = "await1"

ToolRoundTrip(c, resp) ==
    /\ MayFollowUp(call[c].pc)
    /\ resp.calls > 0
    /\ call' = [call EXCEPT ![c].pc = "await2",
                            ![c].rawResponse = <<resp>>]
    /\ UNCHANGED <<now, gemini_keys, memories, bot_logs>>

\* if (!responseText) throw
NoReply(responseText) == responseText = ""

\* Lines 123-125
NewContextMutKeepsOldest(history, prompt, responseText) ==
    SubSeq(history \o <<Turn("user", prompt), Turn("model", responseText)>>,
           1, Min(Len(history) + 2, MemoryLimit))

NewContext(history, prompt, responseText) ==
    SliceLast(history \o <<Turn("user", prompt), Turn("model", responseText)>>,
              MemoryLimit)

\* Lines 127-131: UPDATE by the id read at the start, or INSERT a new row.
\* memories.id is the PRIMARY KEY and (chat_id, user_id) is UNIQUE: an INSERT
\* that breaks either throws.  An UPDATE of a row that is gone changes nothing.
MemoryInsertFailsMutNoUnique(id, chatId, userId) ==
    \E m \in memories : m.id = id

MemoryInsertFails(id, chatId, userId) ==
    \E m \in memories : m.id = id \/ (m.chat_id = chatId /\ m.user_id = userId)

MemoryWrite(cl, contextJson) ==
    IF cl.memoryRecord # NULL
    THEN {IF m.id = cl.memoryRecord THEN [m EXCEPT !.context = contextJson] ELSE m
            : m \in memories}
    ELSE memories \cup {MemoryRow(<<"mem", now>>, cl.chatId, contextJson, cl.userId)}

\* Lines 134-135: bot_logs.id is the PRIMARY KEY.
LogInsertFails(id) == \E l \in bot_logs : l.id = id

\* Lines 97-137: the final response of a key.  Everything from here to the
\* return is synchronous.
Finish(c, resp) ==
    /\ \/ call[c].pc = "await1" /\ resp.calls = 0
       \/ call[c].pc = "await2"
    /\ LET cl == call[c]
           keyObj == cl.keys[cl.i]
           rawResponse == IF cl.pc = "await1" THEN <<resp>>
                          ELSE Append(cl.rawResponse, resp)
           responseText == resp.text
           got == [cl EXCEPT !.responseText = responseText,
                             !.usedKeyId = keyObj,
                             !.rawResponse = rawResponse,
                             !.outcomes = Append(cl.outcomes, "ok")]
           contextJson == NewContext(cl.history, cl.prompt, responseText)
           memFails == cl.memoryRecord = NULL
                       /\ MemoryInsertFails(<<"mem", now>>, cl.chatId, cl.userId)
           logId == <<"log", now>>
       IN  /\ gemini_keys' = MarkUsed(keyObj, now)
           /\ IF NoReply(responseText)
              THEN /\ call' = [call EXCEPT ![c] =
                         Ended(got, "threw", "All API keys failed")]
                   /\ UNCHANGED <<memories, bot_logs>>
              ELSE IF memFails
              THEN /\ call' = [call EXCEPT ![c] =
                         Ended(got, "threw", "SqliteError")]
                   /\ UNCHANGED <<memories, bot_logs>>
              ELSE IF LogInsertFails(logId)
              THEN /\ call' = [call EXCEPT ![c] =
                         Ended(got, "threw", "SqliteError")]
                   /\ memories' = MemoryWrite(cl, contextJson)
                   /\ UNCHANGED bot_logs
              ELSE /\ call' = [call EXCEPT ![c] = Ended(got, "returned", "")]
                   /\ memories' = MemoryWrite(cl, contextJson)
                   /\ bot_logs' = bot_logs \cup
                        {LogRow(logId, cl.prompt, cl.chatId, responseText,
                                rawResponse, keyObj, cl.userId)}
    /\ UNCHANGED now

----------------------------------------------------------------------------
(* Admin routes on the same tables *)

\* POST /api/bot/clear-memory
ClearMemoryMutDropsLogs(userId, chatId) ==
    /\ memories' = memories \ MemoryOf(userId, chatId)
    /\ bot_logs' = {l \in bot_logs : ~(l.user_id = userId
                                         /\ l.request_payload.chatId = chatId)}
    /\ UNCHANGED <<now, gemini_keys, call>>

ClearMemory(userId, chatId) ==
    /\ memories' = memories \ MemoryOf(userId, chatId)
    /\ UNCHANGED <<now, gemini_keys, bot_logs, call>>

\* DELETE /api/keys/:id
DeleteKey(userId, id) ==
    /\ gemini_keys' = {k \in gemini_keys : ~(k.id = id /\ k.user_id = userId)}
    /\ UNCHANGED <<now, memories, bot_logs, call>>

\* A millisecond passes.
Tick(limit) ==
    /\ now < limit
    /\ now' = now + 1
    /\ UNCHANGED <<gemini_keys, memories, bot_logs, call>>

----------------------------------------------------------------------------
(* Concurrent requests and admin actions *)

\* Each slot serves one request; the first request takes slot c1.
FreeSlot(c) ==
    /\ call[c].pc = "idle"
    /\ c = "c1" \/ call["c1"].pc # "idle"

Next ==
    \/ Tick(ClockStart + MaxTicks) /\ UNCHANGED <<started, admin, usage, restVars>>
    \/ \E c \in Slots, o \in Callers, ch \in ChatIds, p \in Prompts :
         /\ FreeSlot(c)
         /\ p = PromptOf(c)
         /\ Begin(c, o, ch, p)
         /\ started' = started + 1
         /\ UNCHANGED <<admin, usage, restVars>>
    \/ \E c \in Slots : ProviderError(c) /\ UNCHANGED <<started, admin, usage, restVars>>
    \/ \E c \in Slots, r \in ProviderResponses :
         ToolRoundTrip(c, r) /\ UNCHANGED <<started, admin, usage, restVars>>
    \/ \E c \in Slots, r \in ProviderResponses :
         Finish(c, r) /\ UNCHANGED <<started, admin, usage, restVars>>
    \/ \E o \in Owners, ch \in ChatIds :
         /\ admin < MaxAdmin
         /\ MemoryOf(o, ch) # {}
         /\ ClearMemory(o, ch)
         /\ admin' = admin + 1
         /\ UNCHANGED <<started, usage, restVars>>
    \/ \E o \in Owners, id \in {k.id : k \in gemini_keys} :
         /\ admin < MaxAdmin
         \* a DELETE that matches no row leaves every table as it is
         /\ \E k \in gemini_keys : k.id = id /\ k.user_id = o
         /\ DeleteKey(o, id)
         /\ admin' = admin + 1
         /\ UNCHANGED <<started, usage, restVars>>

Spec == Init /\ [][Next]_vars

----------------------------------------------------------------------------
(* One chat, one request after another: K turns on one chatKey *)

MaxTurns == 27      \* chatWithGemini calls started in SpecTurns
MaxFailed == 1      \* calls that may fail in SpecTurns

\* Text of the n-th turn: the prompt "u<n>" and the reply "m<n>".
TurnText(tag, n) == tag \o ToString(n)

\* Calls that have returned so far: each one inserted one bot_logs row.
Succeeded == Cardinality(bot_logs)

\* Requests arrive at most one millisecond after the previous reply.

InitTurns ==
    /\ now = ClockStart
    /\ gemini_keys = {KeyRow("k1", "o1", "active", NULL)}
    /\ memories = {}
    /\ bot_logs = {}
    /\ call = [c \in Slots |-> IdleCall]
    /\ started = 0
    /\ admin = 0
    /\ usage = <<>>
    /\ RestIdle

NextTurns ==
    \/ Tick(ClockStart + Succeeded) /\ UNCHANGED <<started, admin, usage, restVars>>
    \/ /\ started < MaxTurns
       /\ started - Succeeded < MaxFailed
       /\ Begin("c1", "o1", "a", TurnText("u", Succeeded + 1))
       /\ started' = started + 1
       /\ UNCHANGED <<admin, usage, restVars>>
    \/ ProviderError("c1") /\ UNCHANGED <<started, admin, usage, restVars>>
    \/ \E text \in {"", TurnText("m", Succeeded + 1)} :
         /\ Finish("c1", [text |-> text, calls |-> 0])
         /\ UNCHANGED <<started, admin, usage, restVars>>

SpecTurns == InitTurns /\ [][NextTurns]_vars

----------------------------------------------------------------------------
(* One owner, one request after another, the provider always answers *)

MaxRotCalls == 5    \* chatWithGemini calls started in SpecRotation
MaxRotTicks == 5    \* milliseconds that may pass in SpecRotation

RotationKeys == {"k1", "k2", "k3"}

\* Every earlier use of a key happened at or before the initial clock reading.
InitRotation ==
    /\ now = ClockStart
    /\ \E last \in [RotationKeys ->
                      {NULL, toISOString(ClockStart - 1), toISOString(ClockStart)}] :
         gemini_keys = {KeyRow(id, "o1", "active", last[id]) : id \in RotationKeys}
                          \cup {KeyRow("k4", "o2", "active", NULL)}
    /\ memories = {}
    /\ bot_logs = {}
    /\ call = [c \in Slots |-> IdleCall]
    /\ started = 0
    /\ admin = 0
    /\ usage = <<>>
    /\ RestIdle

NextRotation ==
    \/ Tick(ClockStart + MaxRotTicks) /\ UNCHANGED <<started, admin, usage, restVars>>
    \/ /\ started < MaxRotCalls
       /\ Begin("c1", "o1", "a", "p1")
       /\ started' = started + 1
       /\ UNCHANGED <<admin, usage, restVars>>
    \/ /\ Finish("c1", [text |-> "ok", calls |-> 0])
       /\ usage' = Append(usage, <<call["c1"].keys[call["c1"].i], now,
                                    call'["c1"].pc>>)
       /\ UNCHANGED <<started, admin, restVars>>

SpecRotation == InitRotation /\ [][NextRotation]_vars

----------------------------------------------------------------------------
(* Persona routes *)

MaxPersonaRequests == 6   \* persona requests served in SpecPersona

PersonaIds == {"pA", "pB", "pC"}   \* values of uuidv4()

PersonaRow(id, owner, active) ==
    [id |-> id, user_id |-> owner, is_active |-> active]

\* The owner's personas with is_active = 1.
ActivePersonas(userId) ==
    {r.id : r \in {q \in personalities : q.user_id = userId /\ q.is_active = 1}}

\* The request as logged: route, authenticated user, :id, and the personas
\* that were active for the user when it arrived.
PersonaRequest(route, userId, id) ==
    [pc |-> "answered", route |-> route, userId |-> userId, id |-> id,
     was |-> ActivePersonas(userId), status |-> 200]

\* POST /api/personalities: a new row, is_active DEFAULT 0.
CreatePersona(userId, id) ==
    /\ \A r \in personalities : r.id # id
    /\ personalities' = personalities \cup {PersonaRow(id, userId, 0)}
    /\ http' = PersonaRequest("create", userId, id)

\* UPDATE personalities SET is_active = 0 WHERE user_id = ?
DeactivateAllMutNone(rows, userId) == rows

DeactivateAll(rows, userId) ==
    {IF r.user_id = userId THEN [r EXCEPT !.is_active = 0] ELSE r : r \in rows}

\* UPDATE personalities SET is_active = 1 WHERE id = ? AND user_id = ?
ActivateOneMutAnyOwner(rows, id, userId) ==
    {IF r.id = id THEN [r EXCEPT !.is_active = 1] ELSE r : r \in rows}

ActivateOne(rows, id, userId) ==
    {IF r.id = id /\ r.user_id = userId THEN [r EXCEPT !.is_active = 1] ELSE r
       : r \in rows}

\* POST /api/personalities/:id/activate: two statements, no await in between.
ActivatePersona(userId, id) ==
    /\ personalities' = ActivateOne(DeactivateAll(personalities, userId), id, userId)
    /\ http' = PersonaRequest("activate", userId, id)

\* DELETE /api/personalities/:id
DeletePersona(userId, id) ==
    /\ personalities' = {r \in personalities : ~(r.id = id /\ r.user_id = userId)}
    /\ http' = PersonaRequest("delete", userId, id)

InitPersona ==
    /\ now = ClockStart
    /\ gemini_keys = {}
    /\ memories = {}
    /\ bot_logs = {}
    /\ call = [c \in Slots |-> IdleCall]
    /\ started = 0
    /\ admin = 0
    /\ usage = <<>>
    /\ RestIdle

\* One more persona request is served; nothing else moves.
PersonaServed ==
    /\ admin < MaxPersonaRequests
    /\ admin' = admin + 1
    /\ UNCHANGED <<now, gemini_keys, memories, bot_logs, call, started, usage,
                   platform_integrations, task, wire>>

NextPersona ==
    \/ \E o \in Owners, id \in PersonaIds : CreatePersona(o, id) /\ PersonaServed
    \/ \E o \in Owners, id \in PersonaIds : ActivatePersona(o, id) /\ PersonaServed
    \/ \E o \in Owners, id \in PersonaIds : DeletePersona(o, id) /\ PersonaServed

SpecPersona == InitPersona /\ [][NextPersona]_vars

----------------------------------------------------------------------------
(* What one call puts on the wire to the provider *)

MaxProviderCalls == 2    \* chatWithGemini calls started in SpecProvider

\* A stored conversation of n turns whose texts tell the turns apart.
NumberedHistory(n) ==
    [i \in 1..n |-> IF i % 2 = 1 THEN Turn("user", TurnText("u", (i + 1) \div 2))
                    ELSE Turn("model", TurnText("m", i \div 2))]

ProviderHistoryLens == {2, 22, 50}

\* history.slice(-20)
ContextSentMutWhole(history) == history

ContextSentMutOdd(history) == SliceLast(history, ContextLimit - 1)

ContextSent(history) == SliceLast(history, ContextLimit)

\* One chat.sendMessage(...) of the call: the key of the model it goes to, the
\* history given to startChat, and what is sent: the prompt, or one function
\* response per requested call.
ProviderRequest(cl, stage, parts) ==
    [key |-> cl.keys[cl.i], stage |-> stage, history |-> ContextSent(cl.history),
     parts |-> parts]

\* How an awaited sendMessage settled.
ProviderAnswer(cl, kind) == [key |-> cl.keys[cl.i], kind |-> kind]

\* What the provider may answer in SpecProvider: a text, no text, or a request
\* for two tools.
ProviderToolResponses ==
    { [text |-> "ok", calls |-> 0],
      [text |-> "",   calls |-> 0],
      [text |-> "",   calls |-> 2] }

InitProvider ==
    /\ now = ClockStart
    /\ gemini_keys = { KeyRow("k1", "o1", "active", NULL),
                       KeyRow("k2", "o1", "active", toISOString(ClockStart - 1)),
                       KeyRow("k3", "o1", "active", toISOString(ClockStart)),
                       KeyRow("k4", "o2", "active", NULL) }
    /\ \/ memories = {}
       \/ \E n \in ProviderHistoryLens :
            memories = {MemoryRow(<<"mem", 0>>, "a", NumberedHistory(n), "o1")}
    /\ bot_logs = {}
    /\ call = [c \in Slots |-> IdleCall]
    /\ started = 0
    /\ admin = 0
    /\ usage = <<>>
    /\ RestIdle

\* The call starts and, with a candidate at hand, sends the prompt to the first.
ProviderBegin ==
    /\ started < MaxProviderCalls
    /\ Begin("c1", "o1", "a", TurnText("q", started + 1))
    /\ started' = started + 1
    /\ wire' = IF call'["c1"].pc = "await1"
               THEN <<ProviderRequest(call'["c1"], "prompt", call'["c1"].prompt)>>
               ELSE <<>>
    /\ usage' = <<>>
    /\ UNCHANGED <<admin, personalities, platform_integrations, http, task>>

\* A sendMessage of the call rejects; the loop sends the prompt to the next
\* candidate, if there is one.
ProviderFails ==
    /\ ProviderError("c1")
    /\ usage' = Append(usage, ProviderAnswer(call["c1"], "error"))
    /\ wire' = IF call'["c1"].pc = "await1"
               THEN Append(wire, ProviderRequest(call'["c1"], "prompt",
                                                 call'["c1"].prompt))
               ELSE wire
    /\ UNCHANGED <<started, admin, personalities, platform_integrations, http, task>>

\* The response to the prompt asks for tools: the follow-up is sent.
ProviderAsksTools(resp) ==
    /\ ToolRoundTrip("c1", resp)
    /\ usage' = Append(usage, ProviderAnswer(call["c1"], "tools"))
    /\ wire' = Append(wire, ProviderRequest(call["c1"], "tools", resp.calls))
    /\ UNCHANGED <<started, admin, personalities, platform_integrations, http, task>>

\* The response taken as final.
ProviderReplies(resp) ==
    /\ Finish("c1", resp)
    /\ usage' = Append(usage, ProviderAnswer(call["c1"], "final"))
    /\ UNCHANGED <<started, admin, restVars>>

NextProvider ==
    \/ /\ ~InFlight("c1")
       /\ Tick(ClockStart + started)
       /\ UNCHANGED <<started, admin, usage, restVars>>
    \/ ProviderBegin
    \/ ProviderFails
    \/ \E resp \in ProviderToolResponses : ProviderAsksTools(resp)
    \/ \E resp \in ProviderToolResponses : ProviderReplies(resp)

SpecProvider == InitProvider /\ [][NextProvider]_vars

----------------------------------------------------------------------------
(* Platform adapters: parseWebhook *)

Platforms == {"telegram", "whatsapp", "messenger"}

\* An optional field of a JSON object: <<>> when absent, <<v>> when present.
Opt(S) == {NULL} \cup {<<v>> : v \in S}

\* req.body when no JSON body was parsed.
Undefined == [kind |-> "undefined"]

\* What a call of parseWebhook ends in: a canonical message, null, or a
\* TypeError thrown by a property read on undefined.
Parsed(platform, chatId, content, mediaType, mediaUrl) ==
    [kind |-> "message", platform |-> platform, chatId |-> chatId,
     content |-> content, mediaType |-> mediaType, mediaUrl |-> mediaUrl]

ParsedNull == [kind |-> "null"]

Thrown == [kind |-> "throw"]

\* try { ... } catch (e) { console.error(...); return null; }
CatchMutRethrows(result) == result

Catch(result) == IF result.kind = "throw" THEN ParsedNull ELSE result

\* a || b || '' on optional texts
OrEmpty(a, b) == IF a # NULL /\ a[1] # "" THEN a[1]
                 ELSE IF b # NULL /\ b[1] # "" THEN b[1]
                 ELSE ""

\* Telegram updates: the message object with the fields parseWebhook reads.
TelegramMessages ==
    [chat : Opt({"7"}), from : Opt({"u1"}), text : Opt({"hi"}),
     caption : Opt({"cap"}), photo : Opt({<<>>, <<"f1", "f2">>}),
     video : Opt({"v1"})]

EditedMessage ==
    [chat |-> <<"7">>, from |-> <<"u1">>, text |-> <<"hi">>, caption |-> NULL,
     photo |-> NULL, video |-> NULL]

TelegramPayloads ==
    {Undefined} \cup
    [kind : {"object"}, message : Opt(TelegramMessages),
     edited_message : Opt({EditedMessage})]

\* telegramAdapter.parseWebhook
TelegramParse(payload) ==
    IF payload.kind = "undefined" THEN Thrown
    ELSE LET found == IF payload.message # NULL THEN payload.message
                      ELSE payload.edited_message
         IN  IF found = NULL THEN ParsedNull
             ELSE LET message == found[1]
                  IN  IF message.chat = NULL \/ message.from = NULL THEN Thrown
                      ELSE LET content == OrEmpty(message.text, message.caption)
                           IN  IF message.photo # NULL
                               THEN IF Len(message.photo[1]) = 0 THEN Thrown
                                    ELSE Parsed("telegram", message.chat[1], content,
                                                <<"image">>,
                                                <<message.photo[1][Len(message.photo[1])]>>)
                               ELSE IF message.video # NULL
                               THEN Parsed("telegram", message.chat[1], content,
                                           <<"video">>, message.video)
                               ELSE Parsed("telegram", message.chat[1], content,
                                           NULL, NULL)

\* WhatsApp notifications: entry[0].changes[0].value.messages[0], absent when
\* any of the levels above it is.
WhatsappMessages ==
    [from : Opt({"49"}), type : {"text", "image", "location"},
     text : Opt({"hi"}), image : Opt([id : {"i1"}, caption : Opt({"cap"})])]

WhatsappPayloads ==
    {Undefined} \cup [kind : {"object"}, message : Opt(WhatsappMessages)]

\* whatsappAdapter.parseWebhook
WhatsappParse(payload) ==
    Catch(IF payload.kind = "undefined" THEN Thrown
          ELSE IF payload.message = NULL THEN ParsedNull
          ELSE LET message == payload.message[1]
                   from == IF message.from = NULL THEN "undefined"
                           ELSE message.from[1]
               IN  IF message.type = "text"
                   THEN Parsed("whatsapp", from, OrEmpty(message.text, NULL),
                               NULL, NULL)
                   ELSE IF message.type = "image"
                   THEN Parsed("whatsapp", from,
                               IF message.image = NULL THEN ""
                               ELSE OrEmpty(message.image[1].caption, NULL),
                               <<"image">>,
                               IF message.image = NULL THEN NULL
                               ELSE <<message.image[1].id>>)
                   ELSE Parsed("whatsapp", from, "", NULL, NULL))

\* Messenger events: entry[0].messaging[0], absent when a level above it is.
MessengerEvents ==
    [sender : Opt({"u1"}),
     message : Opt([text : Opt({"hi"}), attachment : Opt({"image", "file"})])]

MessengerPayloads ==
    {Undefined} \cup [kind : {"object"}, messaging : Opt(MessengerEvents)]

\* messengerAdapter.parseWebhook
MessengerParse(payload) ==
    Catch(IF payload.kind = "undefined" THEN Thrown
          ELSE IF payload.messaging = NULL THEN ParsedNull
          ELSE LET messaging == payload.messaging[1]
               IN  IF messaging.message = NULL THEN ParsedNull
                   ELSE IF messaging.sender = NULL THEN Thrown
                   ELSE LET message == messaging.message[1]
                            content == OrEmpty(message.text, NULL)
                        IN  IF message.attachment = NULL
                            THEN Parsed("messenger", messaging.sender[1], content,
                                        NULL, NULL)
                            ELSE Parsed("messenger", messaging.sender[1], content,
                                        <<IF message.attachment[1] = "file"
                                          THEN "document"
                                          ELSE message.attachment[1]>>,
                                        <<"url">>))

PayloadsOf(platform) ==
    IF platform = "telegram" THEN TelegramPayloads
    ELSE IF platform = "whatsapp" THEN WhatsappPayloads
    ELSE MessengerPayloads

\* getAdapter(platform).parseWebhook(payload)
ParseWebhook(platform, payload) ==
    IF platform = "telegram" THEN TelegramParse(payload)
    ELSE IF platform = "whatsapp" THEN WhatsappParse(payload)
    ELSE MessengerParse(payload)

----------------------------------------------------------------------------
(* Webhook receivers and the background processing they start *)

IntegrationIds == {"t1", "t2", "w1", "m1", "zz"}

IntegrationRow(id, platform, status, owner) ==
    [id |-> id, platform |-> platform, status |-> status, user_id |-> owner]

\* The parse step has not been reached by the request.
Unparsed == [kind |-> "unparsed"]

\* res.status(code).json(body) / res.send(body), with the request it answers.
WebhookResponse(platform, integrationId, payload, parsed, status, body) ==
    [pc |-> "answered", route |-> "webhook", platform |-> platform,
     id |-> integrationId, payload |-> payload, parsed |-> parsed,
     status |-> status, body |-> body]

\* processIncomingMessage(integration, message), suspended at one of its awaits
\* or ended: pc "done", or "logged" when its catch wrote the error to the
\* console.
\* `steps` lists what the task has started so far, in order.
TaskAt(pc, message, error, steps) ==
    [pc |-> pc, platform |-> message.platform, chatId |-> message.chatId,
     content |-> message.content, typing |-> "none", error |-> error,
     steps |-> steps]

\* One thing the task starts: the completion, the typing indicator, a delay
\* (with what its length is computed from) or the send.
Step(op, sizedTo) == [op |-> op, sizedTo |-> sizedTo]

\* What the failure of the background task does to the response of the request
\* that started it: nothing, the catch of processIncomingMessage only logs.
AfterTaskErrorMutAnswers(response) ==
    [response EXCEPT !.status = 500, !.body = "Webhook processing failed"]

AfterTaskError(response) == response

\* The catch of the route around parseWebhook.
AfterParseErrorMutSwallows(platform, integrationId, payload, parsed) ==
    WebhookResponse(platform, integrationId, payload, parsed, 200, "ok")

AfterParseError(platform, integrationId, payload, parsed) ==
    WebhookResponse(platform, integrationId, payload, parsed, 500,
                    "Webhook processing failed")

\* SELECT * FROM platform_integrations WHERE id = ? AND platform = ?
LookupMutAnyPlatform(integrationId, platform) ==
    {r \in platform_integrations : r.id = integrationId}

Lookup(integrationId, platform) ==
    {r \in platform_integrations : r.id = integrationId /\ r.platform = platform}

\* POST /api/webhooks/<platform>/:integrationId, from the lookup of the
\* integration to the response; the call of processIncomingMessage runs to its
\* first await inside the same step.
WebhookPost(platform, integrationId, verify, payload, storeOk) ==
    /\ http = NoRequest
    /\ LET found == Lookup(integrationId, platform)
           integration == CHOOSE r \in found : TRUE
           parsed == ParseWebhook(platform, payload)
       IN  IF found = {} \/ integration.status # "active"
           THEN /\ http' = WebhookResponse(platform, integrationId, payload, Unparsed,
                                           404, "Integration not found or inactive")
                /\ UNCHANGED <<now, gemini_keys, memories, bot_logs, call, task>>
           ELSE IF platform = "whatsapp" /\ verify
           THEN /\ http' = WebhookResponse(platform, integrationId, payload, Unparsed,
                                           200, "challenge")
                /\ UNCHANGED <<now, gemini_keys, memories, bot_logs, call, task>>
           ELSE IF parsed.kind = "throw"
           THEN /\ http' = AfterParseError(platform, integrationId, payload, parsed)
                /\ UNCHANGED <<now, gemini_keys, memories, bot_logs, call, task>>
           ELSE IF parsed.kind = "null"
           THEN /\ http' = WebhookResponse(platform, integrationId, payload, parsed,
                                           200, "ok")
                /\ UNCHANGED <<now, gemini_keys, memories, bot_logs, call, task>>
           ELSE IF ~storeOk
           THEN /\ http' = WebhookResponse(platform, integrationId, payload, parsed,
                                           200, "ok")
                /\ task' = TaskAt("logged", parsed, "store", <<>>)
                /\ UNCHANGED <<now, gemini_keys, memories, bot_logs, call>>
           ELSE /\ http' = WebhookResponse(platform, integrationId, payload, parsed,
                                           200, "ok")
                /\ task' = TaskAt("chat", parsed, "", <<Step("completion", "")>>)
                /\ Begin("c1", integration.user_id,
                         platform \o "-" \o parsed.chatId, parsed.content)
    /\ UNCHANGED <<started, admin, usage, personalities, platform_integrations, wire>>

\* The query of a verification request: hub.mode, hub.verify_token (absent,
\* or the text sent) and hub.challenge.
HubModes == {"subscribe", "unsubscribe"}

HubTokens == Opt({"secret-w1", "secret-m1", "guess"})

HubChallenge == "c42"

\* res.send(req.query['hub.challenge']) / res.status(400).send(...), with the
\* request it answers.
VerifyResponse(platform, integrationId, mode, token, status, body) ==
    [pc |-> "answered", route |-> "verify", platform |-> platform,
     id |-> integrationId, mode |-> mode, token |-> token,
     challenge |-> HubChallenge, status |-> status, body |-> body]

\* if (req.query['hub.mode'] === 'subscribe' && req.query['hub.verify_token'])
VerificationAccepted(mode, token) == mode = "subscribe" /\ token # NULL

\* GET /api/webhooks/whatsapp/:integrationId and
\* GET /api/webhooks/messenger/:integrationId
WebhookGet(platform, integrationId, mode, token) ==
    /\ http = NoRequest
    /\ http' = IF VerificationAccepted(mode, token)
               THEN VerifyResponse(platform, integrationId, mode, token,
                                   200, HubChallenge)
               ELSE VerifyResponse(platform, integrationId, mode, token,
                                   400, "Invalid verification")
    /\ UNCHANGED <<now, gemini_keys, memories, bot_logs, call, started, admin,
                   usage, personalities, platform_integrations, task, wire>>

\* A request the adapter puts on the network.
Outgoing(op, platform, chatId, text) ==
    [op |-> op, platform |-> platform, chatId |-> chatId, text |-> text]

\* processIncomingMessage after `await chatWithGemini(...)`: on a rejection
\* its catch, otherwise sendMessageWithBehavior up to the fetch of
\* adapter.sendTypingIndicator.
ChatEnds ==
    /\ task.pc = "chat"
    /\ call["c1"].pc \in {"returned", "threw"}
    /\ IF call["c1"].pc = "threw"
       THEN /\ task' = [task EXCEPT !.pc = "logged", !.error = "chat"]
            /\ http' = AfterTaskError(http)
            /\ UNCHANGED wire
       ELSE /\ task' = [task EXCEPT !.pc = "typing",
                                    !.steps = Append(@, Step("typing", ""))]
            /\ wire' = Append(wire, Outgoing("typing", task.platform, task.chatId, ""))
            /\ UNCHANGED http
    /\ UNCHANGED <<now, gemini_keys, memories, bot_logs, call, started, admin,
                   usage, personalities, platform_integrations>>

\* adapter.sendTypingIndicator when its fetch settles: the WhatsApp adapter
\* ends the fetch with .catch(() => {}), the other two await it bare.
SendTypingIndicatorMutAllSwallow(platform, fetchOk) == "resolved"

SendTypingIndicator(platform, fetchOk) ==
    IF fetchOk \/ platform = "whatsapp" THEN "resolved" ELSE "rejected"

\* getRandomDelay(integration.typingDelayMin, integration.typingDelayMax): the
\* length of the delay comes from the configuration of the integration alone.
TypingDelay == Step("delay", "config")

\* sendMessageWithBehavior after `await adapter.sendTypingIndicator(...)`.
TypingSettles(fetchOk) ==
    /\ task.pc = "typing"
    /\ IF SendTypingIndicator(task.platform, fetchOk) = "rejected"
       THEN /\ task' = [task EXCEPT !.pc = "logged", !.error = "typing",
                                    !.typing = "failed"]
            /\ http' = AfterTaskError(http)
       ELSE /\ task' = [task EXCEPT !.pc = "delay",
                                    !.typing = IF fetchOk THEN "ok" ELSE "failed",
                                    !.steps = Append(@, TypingDelay)]
            /\ UNCHANGED http
    /\ UNCHANGED <<now, gemini_keys, memories, bot_logs, call, started, admin,
                   usage, personalities, platform_integrations, wire>>

\* content: response.response
OutgoingTextMutEchoes(response, message) == message.content

OutgoingText(response, message) == response.responseText

\* The typing delay elapses and adapter.sendMessage issues its fetch.
DelayElapses ==
    /\ task.pc = "delay"
    /\ task' = [task EXCEPT !.pc = "sending",
                             !.steps = Append(@, Step("send", ""))]
    /\ wire' = Append(wire, Outgoing("message", task.platform, task.chatId,
                                     OutgoingText(call["c1"], task)))
    /\ UNCHANGED <<now, gemini_keys, memories, bot_logs, call, started, admin,
                   usage, personalities, platform_integrations, http>>

SendOutcomes == {"ok", "sendFails", "storeFails"}

\* The fetch of adapter.sendMessage settles; then updateContextSummary.
SendSettles(outcome) ==
    /\ task.pc = "sending"
    /\ IF outcome = "ok"
       THEN /\ task' = [task EXCEPT !.pc = "done"]
            /\ UNCHANGED http
       ELSE /\ task' = [task EXCEPT !.pc = "logged",
                          !.error = IF outcome = "sendFails" THEN "send" ELSE "store"]
            /\ http' = AfterTaskError(http)
    /\ UNCHANGED <<now, gemini_keys, memories, bot_logs, call, started, admin,
                   usage, personalities, platform_integrations, wire>>

WebhookKeyTables ==
    { { KeyRow("k1", "o1", "active", NULL),
        KeyRow("k2", "o1", "active", toISOString(ClockStart)) },
      { KeyRow("k1", "o1", "revoked", NULL) } }

InitWebhook ==
    /\ now = ClockStart
    /\ gemini_keys \in WebhookKeyTables
    /\ memories = {}
    /\ bot_logs = {}
    /\ call = [c \in Slots |-> IdleCall]
    /\ started = 0
    /\ admin = 0
    /\ usage = <<>>
    /\ personalities = {}
    /\ platform_integrations =
         { IntegrationRow("t1", "telegram", "active", "o1"),
           IntegrationRow("t2", "telegram", "inactive", "o1"),
           IntegrationRow("w1", "whatsapp", "active", "o1"),
           IntegrationRow("m1", "messenger", "active", "o1") }
    /\ http = NoRequest
    /\ task = NoTask
    /\ wire = <<>>

NextWebhook ==
    \/ \E platform \in Platforms, integrationId \in IntegrationIds,
          verify \in BOOLEAN, storeOk \in BOOLEAN :
         \E payload \in PayloadsOf(platform) :
           /\ verify => platform = "whatsapp"
           /\ WebhookPost(platform, integrationId, verify, payload, storeOk)
    \/ \E platform \in {"whatsapp", "messenger"}, integrationId \in IntegrationIds,
          mode \in HubModes, token \in HubTokens :
         WebhookGet(platform, integrationId, mode, token)
    \/ ProviderError("c1") /\ UNCHANGED <<started, admin, usage, restVars>>
    \/ \E resp \in ProviderResponses :
         ToolRoundTrip("c1", resp) /\ UNCHANGED <<started, admin, usage, restVars>>
    \/ \E resp \in ProviderResponses :
         Finish("c1", resp) /\ UNCHANGED <<started, admin, usage, restVars>>
    \/ ChatEnds
    \/ \E fetchOk \in BOOLEAN : TypingSettles(fetchOk)
    \/ DelayElapses
    \/ \E outcome \in SendOutcomes : SendSettles(outcome)

SpecWebhook == InitWebhook /\ [][NextWebhook]_vars

----------------------------------------------------------------------------
(* Integration routes in front of the webhook receivers *)

MaxGateRequests == 3     \* integration requests served in SpecGate

GateIds == {"g1"}        \* ids uuidv4() may return

\* What PUT /api/integrations/:id may carry as status (absent: no change).
StatusInputs == Opt({"active", "inactive"})

\* The authenticated request served last: route, req.user.id, :id.
IntegrationRequest(route, userId, id) ==
    <<[route |-> route, userId |-> userId, id |-> id]>>

\* POST /api/integrations: the INSERT names no status, the column default
\* 'inactive' applies.
NewIntegrationStatusMutActive == "active"

NewIntegrationStatus == "inactive"

CreateIntegration(userId, id, platform) ==
    /\ \A r \in platform_integrations : r.id # id
    /\ platform_integrations' = platform_integrations \cup
          {IntegrationRow(id, platform, NewIntegrationStatus, userId)}
    /\ usage' = IntegrationRequest("create", userId, id)

\* PUT /api/integrations/:id: status = COALESCE(?, status) WHERE id = ? AND
\* user_id = ?
UpdateIntegration(userId, id, status) ==
    /\ platform_integrations' =
          {IF r.id = id /\ r.user_id = userId /\ status # NULL
           THEN [r EXCEPT !.status = status[1]] ELSE r : r \in platform_integrations}
    /\ usage' = IntegrationRequest("update", userId, id)

\* POST /api/integrations/:id/toggle
ToggleIntegration(userId, id) ==
    /\ LET found == {r \in platform_integrations : r.id = id /\ r.user_id = userId}
       IN  platform_integrations' =
             IF found = {} THEN platform_integrations
             ELSE {IF r.id = id
                   THEN [r EXCEPT !.status = IF r.status = "active" THEN "inactive"
                                             ELSE "active"]
                   ELSE r : r \in platform_integrations}
    /\ usage' = IntegrationRequest("toggle", userId, id)

\* DELETE /api/integrations/:id
DeleteIntegration(userId, id) ==
    /\ platform_integrations' =
          {r \in platform_integrations : ~(r.id = id /\ r.user_id = userId)}
    /\ usage' = IntegrationRequest("delete", userId, id)

IntegrationServed ==
    /\ admin < MaxGateRequests
    /\ admin' = admin + 1
    /\ UNCHANGED <<now, gemini_keys, memories, bot_logs, call, started,
                   personalities, http, task, wire>>

\* One text message per platform, and a body that is no message.
GatePayloads(platform) ==
    { Undefined,
      IF platform = "telegram"
      THEN [kind |-> "object", edited_message |-> NULL,
            message |-> <<[chat |-> <<"7">>, from |-> <<"u1">>, text |-> <<"hi">>,
                           caption |-> NULL, photo |-> NULL, video |-> NULL]>>]
      ELSE IF platform = "whatsapp"
      THEN [kind |-> "object",
            message |-> <<[from |-> <<"49">>, type |-> "text", text |-> <<"hi">>,
                           image |-> NULL]>>]
      ELSE [kind |-> "object",
            messaging |-> <<[sender |-> <<"u1">>,
                             message |-> <<[text |-> <<"hi">>,
                                            attachment |-> NULL]>>]>>] }

InitGate ==
    /\ now = ClockStart
    /\ gemini_keys = {KeyRow("k1", "o1", "active", NULL),
                      KeyRow("k4", "o2", "active", NULL)}
    /\ memories = {}
    /\ bot_logs = {}
    /\ call = [c \in Slots |-> IdleCall]
    /\ started = 0
    /\ admin = 0
    /\ usage = <<>>
    /\ RestIdle

NextGate ==
    \/ \E o \in Owners, id \in GateIds, platform \in Platforms :
         CreateIntegration(o, id, platform) /\ IntegrationServed
    \/ \E o \in Owners, id \in GateIds, status \in StatusInputs :
         UpdateIntegration(o, id, status) /\ IntegrationServed
    \/ \E o \in Owners, id \in GateIds :
         ToggleIntegration(o, id) /\ IntegrationServed
    \/ \E o \in Owners, id \in GateIds :
         DeleteIntegration(o, id) /\ IntegrationServed
    \/ \E platform \in Platforms, integrationId \in GateIds \cup {"zz"} :
         \E payload \in GatePayloads(platform) :
           WebhookPost(platform, integrationId, FALSE, payload, TRUE)
    \/ ProviderError("c1") /\ UNCHANGED <<started, admin, usage, restVars>>
    \/ Finish("c1", [text |-> "ok", calls |-> 0])
          /\ UNCHANGED <<started, admin, usage, restVars>>
    \/ ChatEnds
    \/ \E fetchOk \in BOOLEAN : TypingSettles(fetchOk)
    \/ DelayElapses
    \/ \E outcome \in SendOutcomes : SendSettles(outcome)

SpecGate == InitGate /\ [][NextGate]_vars

----------------------------------------------------------------------------
(* Two owners side by side: their requests and their calls *)

MaxIsoRequests == 1      \* authenticated admin requests served in SpecIsolation
MaxIsoCalls == 3         \* chatWithGemini calls started in SpecIsolation

\* POST /api/keys: a new row, status DEFAULT 'active', never used.
AddKey(userId, id) ==
    /\ \A k \in gemini_keys : k.id # id
    /\ gemini_keys' = gemini_keys \cup {KeyRow(id, userId, "active", NULL)}
    /\ UNCHANGED <<now, memories, bot_logs, call>>

\* Slot c1 serves the requests of o1, slot c2 those of o2.
OwnerOf(c) == IF c = "c1" THEN "o1" ELSE "o2"

InitIsolation ==
    /\ now = ClockStart
    /\ gemini_keys = {KeyRow("k1", "o1", "active", NULL),
                      KeyRow("k4", "o2", "active", NULL)}
    /\ memories = {}
    /\ bot_logs = {}
    /\ call = [c \in Slots |-> IdleCall]
    /\ started = 0
    /\ admin = 0
    /\ usage = <<>>
    /\ personalities = {PersonaRow("pA", "o1", 1), PersonaRow("pC", "o2", 1)}
    /\ platform_integrations = {IntegrationRow("t1", "telegram", "active", "o1"),
                                IntegrationRow("w1", "whatsapp", "inactive", "o2")}
    /\ http = NoRequest
    /\ task = NoTask
    /\ wire = <<>>

\* One more authenticated request is served; `usage` keeps who asked for what.
IsolationServed(route, userId, id) ==
    /\ admin < MaxIsoRequests
    /\ admin' = admin + 1
    /\ usage' = IntegrationRequest(route, userId, id)
    /\ UNCHANGED <<started, task, wire>>

KeysAndMemoryOnly == UNCHANGED <<personalities, platform_integrations, http>>

PersonasOnly ==
    UNCHANGED <<now, gemini_keys, memories, bot_logs, call, platform_integrations>>

IntegrationsOnly ==
    UNCHANGED <<now, gemini_keys, memories, bot_logs, call, personalities, http>>

NextIsolation ==
    \/ Tick(ClockStart + 1) /\ UNCHANGED <<started, admin, usage, restVars>>
    \/ \E c \in Slots :
         /\ started < MaxIsoCalls
         /\ Begin(c, OwnerOf(c), "a", PromptOf(c))
         /\ started' = started + 1
         /\ UNCHANGED <<admin, usage, restVars>>
    \/ \E c \in Slots :
         /\ Finish(c, [text |-> "ok", calls |-> 0])
         /\ UNCHANGED <<started, admin, usage, restVars>>
    \/ \E o \in Owners, ch \in {"a"} :
         ClearMemory(o, ch) /\ IsolationServed("clear-memory", o, ch)
            /\ KeysAndMemoryOnly
    \/ \E o \in Owners, id \in {"k9"} :
         AddKey(o, id) /\ IsolationServed("add-key", o, id) /\ KeysAndMemoryOnly
    \/ \E o \in Owners, id \in {"k1", "k4"} :
         DeleteKey(o, id) /\ IsolationServed("delete-key", o, id)
            /\ KeysAndMemoryOnly
    \/ \E o \in Owners, id \in {"pB"} :
         CreatePersona(o, id) /\ IsolationServed("create-persona", o, id)
            /\ PersonasOnly
    \/ \E o \in Owners, id \in {"pA", "pC"} :
         ActivatePersona(o, id) /\ IsolationServed("activate-persona", o, id)
            /\ PersonasOnly
    \/ \E o \in Owners, id \in {"pA", "pC"} :
         DeletePersona(o, id) /\ IsolationServed("delete-persona", o, id)
            /\ PersonasOnly
    \/ \E o \in Owners, id \in {"t1", "w1"}, status \in StatusInputs :
         /\ UpdateIntegration(o, id, status) /\ admin < MaxIsoRequests
         /\ admin' = admin + 1 /\ UNCHANGED <<started, task, wire>>
         /\ IntegrationsOnly
    \/ \E o \in Owners, id \in {"t1", "w1"} :
         /\ ToggleIntegration(o, id) /\ admin < MaxIsoRequests
         /\ admin' = admin + 1 /\ UNCHANGED <<started, task, wire>>
         /\ IntegrationsOnly
    \/ \E o \in Owners, id \in {"t1", "w1"} :
         /\ DeleteIntegration(o, id) /\ admin < MaxIsoRequests
         /\ admin' = admin + 1 /\ UNCHANGED <<started, task, wire>>
         /\ IntegrationsOnly

SpecIsolation == InitIsolation /\ [][NextIsolation]_vars

----------------------------------------------------------------------------
(* Vocabulary of the properties *)

\* Date.parse of a stored timestamp: the clock reading it was made from.
RECURSIVE ParseISO(_)
ParseISO(s) ==
    IF s = <<>> THEN 0 ELSE 10 * ParseISO(SubSeq(s, 1, Len(s) - 1)) + s[Len(s)]

\* a is not later than b as a time of last use; never used is earliest.
NotLaterUsed(a, b) ==
    \/ a = NULL
    \/ b # NULL /\ ParseISO(a) <= ParseISO(b)

LastUsedAt(id) == (CHOOSE k \in gemini_keys : k.id = id).last_used_at

\* The step is taken by call c.
Acts(c) ==
    /\ [call'[c] EXCEPT !.concurrent = {}] # [call[c] EXCEPT !.concurrent = {}]
    /\ InFlight(c) \/ call[c].pc = "idle"

\* The step in which call c gets the final response of a key (line 100-101).
GetsResponse(c) == InFlight(c) /\ call'[c].usedKeyId # ""

\* The step in which call c returns {response, keyId}.
Returns(c) == InFlight(c) /\ call'[c].pc = "returned"

\* The step in which call c throws.
Throws(c, message) ==
    /\ call[c].pc # "threw"
    /\ call'[c].pc = "threw"
    /\ call'[c].thrown = message

\* The step in which call c starts.
Starts(c) == call[c].pc = "idle" /\ call'[c].pc # "idle"

\* Ids of the key rows that the step changes or removes.
ChangedKeys == {k.id : k \in gemini_keys \ gemini_keys'}

----------------------------------------------------------------------------
(* C1 *)

\* C1: whenever the provider call of some candidate of a complete call succeeds,
\* the call returns the id of that candidate, which is the first in candidate
\* order whose call succeeded (all earlier ones failed), and the step appends
\* exactly one audit entry, whose api_key_used is that id; a failed attempt
\* appends no audit entry.
C1_FailoverReturnsFirstSuccess ==
    [][\A c \in Slots :
         /\ GetsResponse(c) =>
              /\ call'[c].pc = "returned"
              /\ call'[c].usedKeyId = call[c].keys[call[c].i]
              /\ call[c].outcomes = [j \in 1..(call[c].i - 1) |-> "fail"]
              /\ \E l \in bot_logs' \ bot_logs :
                   /\ bot_logs' = bot_logs \cup {l}
                   /\ l.api_key_used = call'[c].usedKeyId
         /\ (Acts(c) /\ ~GetsResponse(c)) => bot_logs' = bot_logs]_vars

----------------------------------------------------------------------------
(* C2 *)

\* C2: complete throws "All API keys failed" only when the provider call of
\* every candidate failed, and the call then has changed no memory row, no
\* audit row and no last_used_at.
C2_TotalFailureLeavesNoTrace ==
    [][\A c \in Slots :
         /\ Throws(c, "All API keys failed") =>
              /\ call'[c].usedKeyId = ""
              /\ UNCHANGED <<memories, bot_logs, gemini_keys>>
         /\ (Acts(c) /\ InFlight(c)') =>
              UNCHANGED <<memories, bot_logs, gemini_keys>>]_vars

----------------------------------------------------------------------------
(* C3 *)

\* C3: the candidate list built at the start of complete holds exactly the
\* caller's credentials with status active, each once, ordered by ascending
\* time of last use with the never-used ones first.
C3_CandidateSelection ==
    [][\A c \in Slots :
         (Starts(c) /\ InFlight(c)') =>
            LET keys == call'[c].keys
                userId == call'[c].userId
            IN  /\ {keys[i] : i \in 1..Len(keys)} =
                     {k.id : k \in {r \in gemini_keys :
                                      r.user_id = userId /\ r.status = "active"}}
                /\ \A i, j \in 1..Len(keys) : i # j => keys[i] # keys[j]
                /\ \A i, j \in 1..Len(keys) :
                     i < j => NotLaterUsed(LastUsedAt(keys[i]), LastUsedAt(keys[j]))]_vars

\* A call in flight for o1 with three candidates: the two never-used keys
\* before the used one, while o1 also holds a revoked key and o2 an active one.
C3_Witness ==
    \E c \in Slots :
       /\ InFlight(c)
       /\ call[c].userId = "o1"
       /\ Len(call[c].keys) = 3
       /\ call[c].keys[3] = "k3"
       /\ \E k \in gemini_keys : k.user_id = "o1" /\ k.status = "revoked"
       /\ \E k \in gemini_keys : k.user_id = "o2" /\ k.status = "active"
       /\ \E k \in gemini_keys : k.id = "k3" /\ k.last_used_at # NULL

----------------------------------------------------------------------------
(* C4 *)

\* C4 as stated: a successful complete changes the last_used_at of exactly one
\* credential, the returned one, a member of the candidate list, and moves it
\* forward; no other credential changes.
C4_ExactlyOneAdvances ==
    [][\A c \in Slots :
         Returns(c) =>
            LET id == call'[c].usedKeyId
            IN  /\ ChangedKeys = {id}
                /\ \E i \in 1..Len(call[c].keys) : call[c].keys[i] = id
                /\ \E k \in gemini_keys, k2 \in gemini_keys' :
                     /\ k.id = id /\ k2.id = id
                     /\ k.last_used_at # k2.last_used_at
                     /\ NotLaterUsed(k.last_used_at, k2.last_used_at)]_vars

\* C4 amended: a successful complete changes the last_used_at of at most one
\* credential, the returned one, a member of the candidate list; if its row
\* still exists it is set to the clock reading at the success, which is not
\* earlier than the previous value and is later unless the previous value was
\* written in the same millisecond.  Every other credential, and every
\* credential during a failed attempt, keeps its last_used_at.
C4_AtMostOneAdvances ==
    [][\A c \in Slots :
         /\ Returns(c) =>
              LET id == call'[c].usedKeyId
              IN  /\ ChangedKeys \subseteq {id}
                  /\ {k.id : k \in gemini_keys'} = {k.id : k \in gemini_keys}
                  /\ \E i \in 1..Len(call[c].keys) : call[c].keys[i] = id
                  /\ \A k \in gemini_keys, k2 \in gemini_keys' :
                       (k.id = id /\ k2.id = id) =>
                          /\ k2.last_used_at = toISOString(now)
                          /\ NotLaterUsed(k.last_used_at, k2.last_used_at)
                          /\ (k.last_used_at # toISOString(now)) =>
                                /\ ChangedKeys = {id}
                                /\ ~NotLaterUsed(k2.last_used_at, k.last_used_at)
         /\ (Acts(c) /\ ~GetsResponse(c)) => gemini_keys' = gemini_keys]_vars

\* A call has returned k3 after its attempts on k1 and k2 failed: k3 moved
\* from the initial reading to a later one, k1 and k2 are still never used.
C4_Witness ==
    \E c \in Slots :
       /\ call[c].pc = "returned"
       /\ call[c].usedKeyId = "k3"
       /\ \E k \in gemini_keys : k.id = "k3" /\ k.last_used_at = toISOString(ClockStart + 1)
       /\ \E k \in gemini_keys : k.id = "k1" /\ k.last_used_at = NULL
       /\ \E k \in gemini_keys : k.id = "k2" /\ k.last_used_at = NULL

----------------------------------------------------------------------------
(* C5 *)

\* The keys of the uses i..j of the history.
UsedKeys(i, j) == {usage[n][1] : n \in i..j}

\* The calls of the uses i..j all returned.
AllReturned(i, j) == \A n \in i..j : usage[n][3] = "returned"

\* Each use happens at a later millisecond than the one before it, the first
\* one later than the initial clock reading.
UsesApart ==
    \A n \in 1..Len(usage) :
       usage[n][2] > (IF n = 1 THEN ClockStart ELSE usage[n - 1][2])

\* The key that call c is using was used no later than any other active key of
\* the caller.
UsesLeastRecent(c) ==
    \A k \in ActiveKeys(call[c].userId) :
       NotLaterUsed(LastUsedAt(call[c].keys[call[c].i]), k.last_used_at)

\* C5 as stated: with N active credentials whose provider calls all succeed
\* and complete calls issued one after another, each call uses the least
\* recently used credential, and any N consecutive calls use each of the N
\* credentials once (N = 3; stated for calls that returned).
C5_FairRotation ==
    /\ [][GetsResponse("c1") => UsesLeastRecent("c1")]_vars
    /\ [](\A n \in 1..Len(usage) :
            (n + 2 <= Len(usage) /\ AllReturned(n, n + 2)) =>
               UsedKeys(n, n + 2) = RotationKeys)

\* Where the rotation does hold: each call uses a credential that no other
\* active credential precedes in time of last use; and while every call gets
\* its response at a later millisecond than the previous one (and later than
\* every last use recorded before the first call), any N consecutive calls use
\* each of the N credentials once, and the credential just used is the only
\* one with the latest time of last use.
RotationWhenUsesApart ==
    /\ [][GetsResponse("c1") => UsesLeastRecent("c1")]_vars
    /\ [](UsesApart =>
            /\ \A n \in 1..Len(usage) :
                  n + 2 <= Len(usage) => UsedKeys(n, n + 2) = RotationKeys
            /\ Len(usage) > 0 =>
                  \A k \in ActiveKeys("o1") :
                     k.id # usage[Len(usage)][1] =>
                        ~NotLaterUsed(LastUsedAt(usage[Len(usage)][1]),
                                      k.last_used_at))

\* Five calls in a row, each at a later millisecond: the keys came round in
\* the same order, and the fourth and fifth use repeat the first and second.
RotationWitness ==
    /\ Len(usage) = 5
    /\ UsesApart
    /\ usage[4][1] = usage[1][1]
    /\ usage[5][1] = usage[2][1]
    /\ UsedKeys(1, 3) = RotationKeys

----------------------------------------------------------------------------
(* C6 *)

\* C6: when the caller has no active credential (no row, only non-active rows,
\* or only rows of other owners), complete throws "No active Gemini API keys
\* found" in its first step, with no provider request issued and no row of
\* gemini_keys, memories or bot_logs changed; and it throws this in no other
\* case.
C6_NoCredentialsFailsFast ==
    [][\A c \in Slots :
         Starts(c) =>
            LET userId == call'[c].userId
                none == {k \in gemini_keys :
                           k.user_id = userId /\ k.status = "active"} = {}
            IN  /\ none =>
                     /\ call'[c].pc = "threw"
                     /\ call'[c].thrown = "No active Gemini API keys found"
                     /\ UNCHANGED <<gemini_keys, memories, bot_logs>>
                /\ Throws(c, "No active Gemini API keys found") => none]_vars

\* A call of o1 has thrown the error while o1 holds only a revoked key and o2
\* holds an active one.
C6_Witness ==
    \E c \in Slots :
       /\ call[c].pc = "threw"
       /\ call[c].thrown = "No active Gemini API keys found"
       /\ call[c].userId = "o1"
       /\ \E k \in gemini_keys : k.user_id = "o1" /\ k.status = "revoked"
       /\ \E k \in gemini_keys : k.user_id = "o2" /\ k.status = "active"

----------------------------------------------------------------------------
(* C7 *)

\* The turns of the first k exchanges of the chat, oldest first.
RECURSIVE Exchanges(_)
Exchanges(k) ==
    IF k = 0 THEN <<>>
    ELSE Exchanges(k - 1) \o <<Turn("user", TurnText("u", k)),
                               Turn("model", TurnText("m", k))>>

\* Every call started so far has returned or is still in flight.
AllSucceeded ==
    started = Succeeded + (IF InFlight("c1") THEN 1 ELSE 0)

\* C7: after K successful complete calls in a row on one chatKey that had no
\* stored memory, the memory row of the chat holds min(2K, MemoryLimit) turns:
\* the newest ones, in order, the newest last (the oldest are the ones
\* dropped); and no memory row ever holds more than MemoryLimit turns.
C7_BoundedMemory ==
    /\ \A m \in memories : Len(m.context) <= MemoryLimit
    /\ AllSucceeded =>
          LET K == Succeeded
              n == Min(2 * K, MemoryLimit)
          IN  IF K = 0 THEN memories = {}
              ELSE \E m \in memories :
                      /\ memories = {m}
                      /\ m.chat_id = "a" /\ m.user_id = "o1"
                      /\ Len(m.context) = n
                      /\ \A i \in 1..n :
                            m.context[i] = Exchanges(K)[2 * K - n + i]

\* 26 calls in a row have returned: the row holds 50 turns, from the prompt of
\* the second call to the reply of the 26th.
C7_Witness ==
    /\ Succeeded = 26
    /\ AllSucceeded
    /\ \E m \in memories :
          /\ Len(m.context) = MemoryLimit
          /\ m.context[1] = Turn("user", "u2")
          /\ m.context[MemoryLimit] = Turn("model", "m26")

----------------------------------------------------------------------------
(* C8 *)

\* C8: whenever complete returns, a memory row of (chatKey, owner) exists
\* whose turns are the last MemoryLimit of the history loaded at the start
\* followed by the user turn and the model turn of this call.
C8_PersistedTurn ==
    [][\A c \in Slots :
         Returns(c) =>
            \E m \in memories' :
               /\ m.chat_id = call[c].chatId
               /\ m.user_id = call[c].userId
               /\ m.context =
                    SliceLast(call[c].history \o
                                <<Turn("user", call[c].prompt),
                                  Turn("model", call'[c].responseText)>>,
                              MemoryLimit)]_vars

----------------------------------------------------------------------------
(* C9 *)

\* The memory row of call c's chat holds what c writes with reply text.
StoresOwnTurn(c, text) ==
    \E m \in memories' :
       /\ m.chat_id = call[c].chatId
       /\ m.user_id = call[c].userId
       /\ m.context = NewContext(call[c].history, call[c].prompt, text)

\* No row carries an id made from the current clock reading.
FreshClockIds ==
    /\ \A m \in memories : m.id # <<"mem", now>>
    /\ \A l \in bot_logs : l.id # <<"log", now>>

\* C9: when two complete calls of one (chatKey, owner) overlap (both load the
\* history before either persists) and both get a reply, each of them persists
\* and returns, so the stored memory is the one written by the later writer;
\* with a memory row present at the start or with none.  (Stated for clock
\* readings not yet used in an id and with no admin request in between, so that
\* only the two writers are involved.)
C9_LastWriterWins ==
    [][\A c \in Slots :
         ( /\ GetsResponse(c)
           /\ call'[c].responseText # ""
           /\ call[c].concurrent = {<<call[c].userId, call[c].chatId>>}
           /\ FreshClockIds
           /\ admin = 0 ) =>
              /\ call'[c].pc = "returned"
              /\ StoresOwnTurn(c, call'[c].responseText)]_vars

----------------------------------------------------------------------------
(* C10 *)

\* C10: a complete call that overlaps only with calls of other chatKeys and
\* gets a reply returns and persists exactly as it would alone, and leaves the
\* memory rows of the other chatKeys as they are.  (Alone, with no admin
\* request, a call that gets a reply always returns: no row of an earlier
\* request exists.)
C10_ChatsIndependent ==
    [][\A c \in Slots :
         ( /\ GetsResponse(c)
           /\ call'[c].responseText # ""
           /\ call[c].concurrent # {}
           /\ <<call[c].userId, call[c].chatId>> \notin call[c].concurrent
           /\ admin = 0 ) =>
              /\ call'[c].pc = "returned"
              /\ StoresOwnTurn(c, call'[c].responseText)
              /\ \A m \in memories :
                    m.chat_id # call[c].chatId => m \in memories']_vars

----------------------------------------------------------------------------
(* C11 *)

\* C11: in every reachable state there is at most one memory row per
\* (chatKey, owner), whatever complete and clear-memory requests were served
\* and however they interleaved.
C11_OneMemoryPerChat ==
    \A m1, m2 \in memories :
       (m1.chat_id = m2.chat_id /\ m1.user_id = m2.user_id) => m1 = m2

\* Two calls on chat b, which had no row, both got a reply: the first one
\* inserted the row, the INSERT of the second one was refused.
C11_Witness ==
    /\ \E m \in MemoryOf("o1", "b") : Len(m.context) = 2
    /\ \E m \in MemoryOf("o1", "a") : Len(m.context) = 2
    /\ call["c1"].pc = "returned"
    /\ call["c2"].pc = "threw" /\ call["c2"].thrown = "SqliteError"

----------------------------------------------------------------------------
(* C12 *)

\* The credentials with their owner and status.
Credentials == {<<k.id, k.user_id, k.status>> : k \in gemini_keys}

\* C12: no step of complete changes the status of a credential or removes
\* one, whatever the provider answers: the active credentials of every owner
\* are the same after the step, so a credential whose attempt failed is a
\* candidate of the next request.
C12_NoAutomaticDeactivation ==
    [][(\E c \in Slots : Acts(c)) => Credentials' = Credentials]_vars

\* The first call failed on each of its three keys; the second call, started
\* afterwards, has the same three keys as candidates.
C12_Witness ==
    /\ call["c1"].pc = "threw"
    /\ call["c1"].thrown = "All API keys failed"
    /\ call["c1"].usedKeyId = ""
    /\ InFlight("c2")
    /\ {call["c2"].keys[i] : i \in 1..Len(call["c2"].keys)} = {"k1", "k2", "k3"}
    /\ admin = 0

----------------------------------------------------------------------------
(* C15 *)

\* C15: no step modifies or deletes a row of bot_logs: every row present
\* before a step is present after it with the same request, response, raw
\* response and credential id.
C15_AuditAppendOnly == [][bot_logs \subseteq bot_logs']_vars

\* The memory of chat a was cleared after a call on chat a was logged; the
\* entry of that call is still there.
C15_Witness ==
    /\ MemoryOf("o1", "a") = {}
    /\ \E l \in bot_logs : l.request_payload.chatId = "a" /\ l.user_id = "o1"
    /\ \A c \in Slots : ~InFlight(c)

----------------------------------------------------------------------------
(* C13 *)

\* C13: in every reachable state, after any sequence of persona create,
\* activate and delete requests by any owners, each owner has at most one
\* persona with is_active = 1.
C13_AtMostOneActivePersona ==
    \A o \in Owners : Cardinality(ActivePersonas(o)) <= 1

\* o1 had pA active and asked to activate pB: pB is active and pA, still a
\* persona of o1, is not; o2 has its own active persona.
C13_Witness ==
    /\ http = [pc |-> "answered", route |-> "activate", userId |-> "o1",
               id |-> "pB", was |-> {"pA"}, status |-> 200]
    /\ PersonaRow("pA", "o1", 0) \in personalities
    /\ PersonaRow("pB", "o1", 1) \in personalities
    /\ PersonaRow("pC", "o2", 1) \in personalities

----------------------------------------------------------------------------
(* C14 *)

\* The ids of the owner's personas.
PersonasOf(userId) == {r.id : r \in {q \in personalities : q.user_id = userId}}

\* C14 as stated: after an activate request of an owner who had an active
\* persona, exactly one persona of that owner is active, and it is the target
\* whenever the target is a persona of that owner.
C14_ActivationLeavesOne ==
    (http.pc = "answered" /\ http.route = "activate" /\ http.was # {}) =>
       /\ Cardinality(ActivePersonas(http.userId)) = 1
       /\ http.id \in PersonasOf(http.userId) =>
             ActivePersonas(http.userId) = {http.id}

\* C14 amended: an activate request of an owner for target B leaves B as the
\* only active persona of that owner when B is a persona of that owner, and
\* leaves that owner without an active persona when it is not (unknown id or a
\* persona of another owner); the rows of other owners are untouched and no
\* row is added or removed.
C14_ActivationIsPair ==
    [][(admin' # admin /\ http'.route = "activate") =>
          LET o == http'.userId
              b == http'.id
          IN  /\ {r.id : r \in {q \in personalities' :
                                   q.user_id = o /\ q.is_active = 1}}
                    = (IF b \in PersonasOf(o) THEN {b} ELSE {})
              /\ {r \in personalities' : r.user_id # o}
                    = {r \in personalities : r.user_id # o}
              /\ {r.id : r \in personalities'} = {r.id : r \in personalities}]_vars

\* o1 had pA active and asked to activate pC, a persona of o2 that is not
\* active: o1 has no active persona now and pC is as it was.
C14_Witness ==
    /\ http = [pc |-> "answered", route |-> "activate", userId |-> "o1",
               id |-> "pC", was |-> {"pA"}, status |-> 200]
    /\ PersonaRow("pA", "o1", 0) \in personalities
    /\ PersonaRow("pC", "o2", 0) \in personalities
    /\ PersonaRow("pB", "o1", 0) \in personalities

----------------------------------------------------------------------------
(* C16 *)

\* The request is a webhook POST that found its integration active.
ActiveWebhook(h) == h.pc = "answered" /\ h.route = "webhook" /\ h.status # 404

\* C16: a webhook POST for an active integration is answered in the step that
\* parses it, while the completion it started has not returned and nothing has
\* been sent; the background task only runs under an answered request; and
\* once given, the response is never changed, whatever error (provider, send,
\* store) the background task ends in, which is logged.
C16_AnswersBeforeProcessing ==
    /\ [][(http = NoRequest /\ ActiveWebhook(http') /\ http'.parsed.kind = "message")
             => /\ http'.status = 200
                /\ task'.pc \in {"chat", "logged"}
                /\ call'["c1"].pc # "returned"
                /\ wire' = <<>>]_vars
    /\ [][http # NoRequest => http' = http]_vars
    /\ [](task # NoTask =>
            /\ ActiveWebhook(http) /\ http.status = 200 /\ http.body = "ok"
            /\ task.pc = "logged" <=> task.error # "")

\* The reply of the provider was computed and its send to Telegram failed in
\* the background; the request was answered {ok: true} long before.
C16_Witness ==
    /\ ActiveWebhook(http) /\ http.platform = "telegram"
    /\ http.status = 200 /\ http.body = "ok"
    /\ task # NoTask /\ task.pc = "logged" /\ task.error = "send"
    /\ call["c1"].pc = "returned"
    /\ Len(wire) = 2

----------------------------------------------------------------------------
(* C17 *)

\* C17: a webhook POST to an active integration whose payload is not parsed
\* into a user message is answered with success (status 200) and starts no
\* background processing, on each of the three platforms.
C17_UnparseableSwallowed ==
    (ActiveWebhook(http) /\ http.parsed.kind # "message") =>
       http.status = 200 /\ task = NoTask

----------------------------------------------------------------------------
(* C18 *)

\* The request reached adapter.parseWebhook(req.body).
ParseReached(h) == h.pc = "answered" /\ h.route = "webhook" /\ h.parsed # Unparsed

\* C18: whatever payload a webhook hands to parseWebhook of any of the three
\* adapters, the call ends in a canonical message or in null, never in a
\* thrown error.
C18_ParseNeverThrows ==
    ParseReached(http) => http.parsed.kind \in {"message", "null"}

\* The two adapters that wrap their body in try/catch keep the claim.
ParseNeverThrowsWithCatch ==
    (ParseReached(http) /\ http.platform # "telegram") =>
       http.parsed.kind \in {"message", "null"}

\* A Messenger event with a message and no sender was parsed to null.
ParseWithCatchWitness ==
    /\ ParseReached(http) /\ http.platform = "messenger"
    /\ http.payload.kind = "object" /\ http.payload.messaging # NULL
    /\ http.payload.messaging[1].message # NULL
    /\ http.payload.messaging[1].sender = NULL
    /\ http.parsed = ParsedNull

----------------------------------------------------------------------------
(* C19 *)

\* The result the claim gives for a Telegram payload: for a message with a
\* photo array and no text, a canonical message of mediaType "image" whose
\* content is the caption, or "" without one; for a payload with neither
\* message nor edited_message, null.
PhotoResultAsStated(payload, parsed) ==
    /\ (payload.message # NULL /\ payload.message[1].photo # NULL
          /\ payload.message[1].text = NULL) =>
         /\ parsed.kind = "message"
         /\ parsed.mediaType = <<"image">>
         /\ parsed.content = (IF payload.message[1].caption # NULL
                              THEN payload.message[1].caption[1] ELSE "")
    /\ (payload.message = NULL /\ payload.edited_message = NULL) =>
         parsed.kind = "null"

\* C19: every Telegram payload (a JSON object) handed to parseWebhook gets the
\* result stated for it.
C19_TelegramPhoto ==
    (ParseReached(http) /\ http.platform = "telegram"
       /\ http.payload.kind = "object") =>
       PhotoResultAsStated(http.payload, http.parsed)

\* The stated result is what the code returns whenever it returns at all.
PhotoResultWhenReturned ==
    (ParseReached(http) /\ http.platform = "telegram"
       /\ http.payload.kind = "object" /\ http.parsed.kind # "throw") =>
       PhotoResultAsStated(http.payload, http.parsed)

\* A captioned photo from a known chat and sender was parsed.
PhotoResultWitness ==
    /\ ParseReached(http) /\ http.platform = "telegram"
    /\ http.payload.kind = "object" /\ http.payload.message # NULL
    /\ http.payload.message[1].photo = <<(<<"f1", "f2">>)>>
    /\ http.payload.message[1].text = NULL
    /\ http.payload.message[1].caption = <<"cap">>
    /\ http.parsed.kind = "message"
    /\ http.parsed.content = "cap" /\ http.parsed.mediaUrl = <<"f2">>

----------------------------------------------------------------------------
(* C20 *)

\* adapter.sendMessage has put its request on the network.
MessageIssued == \E i \in 1..Len(wire) : wire[i].op = "message"

\* C20: when the wire call of the typing indicator fails, on any platform,
\* sendTypingIndicator still completes normally (the task does not end in its
\* error) and sendMessageWithBehavior goes on to issue sendMessage.
C20_TypingFailureSwallowed ==
    (task # NoTask /\ task.typing = "failed") =>
       /\ task.error # "typing"
       /\ task.pc \in {"sending", "done", "logged"} => MessageIssued

\* The WhatsApp adapter, whose fetch ends in .catch(() => {}), keeps the claim.
TypingFailureSwallowedByWhatsapp ==
    (task # NoTask /\ task.typing = "failed" /\ task.platform = "whatsapp") =>
       /\ task.error # "typing"
       /\ task.pc \in {"sending", "done", "logged"} => MessageIssued

\* The typing indicator of a WhatsApp reply failed and the reply was sent.
TypingFailureWhatsappWitness ==
    /\ task # NoTask /\ task.typing = "failed" /\ task.platform = "whatsapp"
    /\ task.pc = "done" /\ MessageIssued

----------------------------------------------------------------------------
(* C21 *)

\* The verify token the admin configured for an integration (stored with the
\* row as its secret); the GET routes never read it.
ConfiguredToken(integrationId) == "secret-" \o integrationId

\* The request is a verification GET and its response is the challenge.
ChallengeEchoed(h) ==
    h.pc = "answered" /\ h.route = "verify" /\ h.status = 200 /\ h.body = h.challenge

\* C21: a verification GET on the WhatsApp or Messenger path is answered with
\* the challenge exactly when hub.mode is subscribe and hub.verify_token is
\* the token configured for the integration named in the path; with another
\* token, or for an unknown integration, the challenge is not echoed.
C21_HandshakeChecksToken ==
    (http.pc = "answered" /\ http.route = "verify") =>
       (ChallengeEchoed(http) <=>
          /\ http.mode = "subscribe"
          /\ \E r \in platform_integrations :
                r.id = http.id /\ r.platform = http.platform
          /\ http.token = <<ConfiguredToken(http.id)>>)

\* What the routes do: the challenge is echoed exactly when hub.mode is
\* subscribe and some verify token was sent.
HandshakeAsCoded ==
    (http.pc = "answered" /\ http.route = "verify") =>
       (ChallengeEchoed(http) <=> (http.mode = "subscribe" /\ http.token # NULL))

\* A subscribe request with a token that is not the integration's got the
\* challenge back.
HandshakeWitness ==
    /\ ChallengeEchoed(http) /\ http.platform = "whatsapp" /\ http.id = "w1"
    /\ http.token = <<"guess">>

----------------------------------------------------------------------------
(* C22 *)

IsPrompt(r) == r.stage = "prompt"

\* The requests of the current call that carry the prompt, in order of issue.
PromptRequests(w) == SelectSeq(w, IsPrompt)

\* Provider requests of the current call that are issued and not yet settled.
RequestsInFlight == Len(wire) - Len(usage)

\* C22: within one call at most one provider request is in flight; the prompt
\* goes to the candidates in their order, one request per candidate, and to
\* candidate i+1 only in the step in which the attempt on candidate i failed;
\* a follow-up goes to the candidate whose response asked for it; and once an
\* attempt has succeeded (its response was taken as final) the call issues no
\* further request.
C22_OneAtATime ==
    /\ [](/\ RequestsInFlight \in {0, 1}
          /\ RequestsInFlight = 1 <=> InFlight("c1")
          /\ InFlight("c1") =>
                \A j \in 1..Len(PromptRequests(wire)) :
                   PromptRequests(wire)[j].key = call["c1"].keys[j]
          /\ \A j \in 2..Len(wire) :
                wire[j].stage = "tools" =>
                   /\ wire[j - 1].stage = "prompt" /\ wire[j - 1].key = wire[j].key
                   /\ usage[j - 1].kind = "tools")
    /\ [][(Len(wire') > Len(wire) /\ Len(wire) > 0 /\ IsPrompt(wire'[Len(wire')])) =>
             /\ wire' = Append(wire, wire'[Len(wire')])
             /\ usage' = Append(usage, [key |-> wire[Len(wire)].key,
                                        kind |-> "error"])]_vars
    /\ [][(\E j \in 1..Len(usage) : usage[j].kind = "final") =>
             (wire' = wire \/ (usage' = <<>> /\ Len(wire') <= 1))]_vars

\* The first candidate asked for tools and then failed, the second failed, the
\* third answered: four requests, each issued after the one before it settled.
C22_Witness ==
    /\ call["c1"].pc = "returned" /\ call["c1"].usedKeyId = "k3"
    /\ Len(wire) = 4
    /\ [j \in 1..4 |-> <<wire[j].key, wire[j].stage>>] =
          << <<"k1", "prompt">>, <<"k1", "tools">>, <<"k2", "prompt">>,
             <<"k3", "prompt">> >>
    /\ [j \in 1..4 |-> usage[j].kind] = <<"tools", "error", "error", "final">>

----------------------------------------------------------------------------
(* C23 *)

\* Requests of the current call that went to one key.
RequestsTo(key) == Cardinality({j \in 1..Len(wire) : wire[j].key = key})

\* What is left of the loop: two requests for every candidate not yet tried,
\* and for the current one the prompt's answer and the follow-up's answer.
RequestsLeft(cl) ==
    IF cl.pc = "await1" THEN 2 * (Len(cl.keys) - cl.i) + 2
    ELSE IF cl.pc = "await2" THEN 2 * (Len(cl.keys) - cl.i) + 1
    ELSE 0

\* C23: a candidate gets at most two requests of one call, the prompt and at
\* most one follow-up, which carries one function response per requested call;
\* the answer to the follow-up ends the attempt (final or failed) whatever it
\* asks for; so a call issues at most 2 x (number of candidates) requests, and
\* every answer of the provider brings the call strictly closer to its end.
C23_BoundedRoundTrip ==
    /\ [](/\ \A k \in ActiveKeys("o1") : RequestsTo(k.id) <= 2
          /\ Len(wire) <= 2 * Cardinality(ActiveKeys("o1"))
          /\ call["c1"].pc = "await2" =>
                /\ wire[Len(wire)].stage = "tools"
                /\ wire[Len(wire)].parts = call["c1"].rawResponse[1].calls)
    /\ [][(call["c1"].pc = "await2" /\ usage' # usage) =>
             /\ usage'[Len(usage')].kind \in {"final", "error"}
             /\ call'["c1"].pc # "await2"]_vars
    /\ [][(InFlight("c1") /\ usage' # usage) =>
             RequestsLeft(call'["c1"]) < RequestsLeft(call["c1"])]_vars

\* Every one of the three candidates asked for tools; the first two failed on
\* the follow-up and the answer of the third was final: six requests.
C23_Witness ==
    /\ ~InFlight("c1") /\ call["c1"].pc = "threw"
    /\ Len(wire) = 6
    /\ [j \in 1..6 |-> usage[j].kind] =
          <<"tools", "error", "tools", "error", "tools", "final">>
    /\ wire[6].parts = 2

----------------------------------------------------------------------------
(* C24 *)

\* The history stored for a chat: the context of its memory row, or no turns.
StoredHistory(userId, chatId) ==
    IF MemoryOf(userId, chatId) = {} THEN <<>>
    ELSE (CHOOSE m \in MemoryOf(userId, chatId) : TRUE).context

\* C24: while a call is in flight (nothing else writes its chat), every
\* request it has issued, to whichever candidate, carries as prior context the
\* last min(20, n) turns of the n turns stored for the chat when the call
\* started, in stored order; the prompt travels as the message, not as a turn
\* of the context.
C24_ContextIsLastTwenty ==
    InFlight("c1") =>
       LET h == StoredHistory("o1", "a")
           n == Len(h)
           k == IF n < 20 THEN n ELSE 20
       IN  /\ call["c1"].history = h
           /\ \A j \in 1..Len(wire) :
                 /\ Len(wire[j].history) = k
                 /\ \A i \in 1..k : wire[j].history[i] = h[n - k + i]
                 /\ \A i \in 1..k : wire[j].history[i].content # call["c1"].prompt
                 /\ IsPrompt(wire[j]) => wire[j].parts = call["c1"].prompt

\* With 22 turns stored, the second candidate is sent turns 3 to 22, as the
\* first was.
C24_Witness ==
    /\ InFlight("c1") /\ Len(StoredHistory("o1", "a")) = 22
    /\ Len(wire) = 2 /\ wire[1].key = "k1" /\ wire[2].key = "k2"
    /\ wire[2].history[1] = Turn("user", "u2")
    /\ wire[2].history[20] = Turn("model", "m11")
    /\ wire[2].history = wire[1].history

----------------------------------------------------------------------------
(* C29 *)

\* An even number of turns: user, model, user, model, ...
Alternates(h) ==
    /\ Len(h) % 2 = 0
    /\ \A i \in 1..Len(h) : h[i].role = (IF i % 2 = 1 THEN "user" ELSE "model")

\* C29: every stored memory is an even-length sequence of turns alternating
\* user, model from a user turn on, and every context sent to the provider
\* has at most 20 turns and, when it has any, starts with a user turn and ends
\* with a model turn.
C29_TurnsAlternate ==
    /\ \A m \in memories : Alternates(m.context)
    /\ \A j \in 1..Len(wire) :
          LET sent == wire[j].history
          IN  /\ Len(sent) <= 20
              /\ Len(sent) > 0 =>
                    sent[1].role = "user" /\ sent[Len(sent)].role = "model"

\* A chat of 50 stored turns took one more exchange and was cut to 50 again;
\* the next call sends its last 20 turns, which end with that exchange.
C29_Witness ==
    /\ started = 2 /\ InFlight("c1")
    /\ Len(StoredHistory("o1", "a")) = MemoryLimit
    /\ StoredHistory("o1", "a")[1] = Turn("user", "u2")
    /\ StoredHistory("o1", "a")[MemoryLimit - 1] = Turn("user", "q1")
    /\ Len(wire) = 1 /\ Len(wire[1].history) = 20
    /\ wire[1].history[1] = Turn("user", "u17")
    /\ wire[1].history[20] = Turn("model", "ok")

----------------------------------------------------------------------------
(* C26 *)

\* The step in which call c ends, by return or by throw.
Ends(c) == InFlight(c) /\ ~InFlight(c)'

\* C26: the step that ends a complete call leaves its three writes all done or
\* all undone: the last_used_at of its credential is stamped exactly when its
\* memory row is written, and that exactly when its audit entry is added.
C26_AllOrNothing ==
    [][\A c \in Slots :
         Ends(c) =>
            /\ (gemini_keys' # gemini_keys) <=> (memories' # memories)
            /\ (memories' # memories) <=> (bot_logs' # bot_logs)]_vars

\* The writes are made one by one, in the order key, memory, audit entry, and
\* a throw keeps what was written before it: whenever the audit entry is
\* added the call returns, and a memory write never happens in a step that
\* names no used key.
WritesInOrder ==
    [][\A c \in Slots :
         Ends(c) =>
            /\ (bot_logs' # bot_logs) => call'[c].pc = "returned"
            /\ (memories' # memories) => call'[c].usedKeyId # ""]_vars

\* A call threw on the audit insert after it had written its memory row.
WritesInOrderWitness ==
    \E c \in Slots :
       /\ call[c].pc = "threw" /\ call[c].thrown = "SqliteError"
       /\ call[c].usedKeyId # ""
       /\ \E m \in memories :
             m.user_id = "o1" /\ Len(m.context) = 4
                /\ Cardinality({l \in bot_logs : l.request_payload.chatId = m.chat_id}) = 0

----------------------------------------------------------------------------
(* C25 *)

\* C25: the background task of an inbound message that was answered to the
\* end has started, in this order and one after the other: a reading delay
\* sized to the incoming text, the completion, the typing indicator, a typing
\* delay sized to the reply, the send.
C25_TwoDelays ==
    (task # NoTask /\ task.pc = "done") =>
       task.steps = << Step("delay", "incoming"), Step("completion", ""),
                       Step("typing", ""), Step("delay", "reply"),
                       Step("send", "") >>

\* What the task does: completion, typing indicator, one delay drawn from the
\* configured range, send.
StepsAsCoded ==
    (task # NoTask /\ task.pc = "done") =>
       task.steps = << Step("completion", ""), Step("typing", ""),
                       Step("delay", "config"), Step("send", "") >>

\* A WhatsApp message was answered to the end.
StepsWitness ==
    /\ task # NoTask /\ task.pc = "done" /\ task.platform = "whatsapp"
    /\ Len(wire) = 2

----------------------------------------------------------------------------
(* C27 *)

\* The sendMessage requests that were put on the network.
MessagesSent == {j \in 1..Len(wire) : wire[j].op = "message"}

\* The chatKey of the message the request was parsed to.
ChatKeyOf(h) == h.platform \o "-" \o h.parsed.chatId

\* C27: for a webhook call whose payload parsed to a message, the completion
\* is started for the owner of the integration with the chatKey
\* "<platform>-<chatId>" and the content of the message; at most one
\* sendMessage is issued; it is issued only after that completion returned,
\* carries exactly the reply it returned (the one in its audit entry) and goes
\* to the platform and chatId of the inbound message; and when the completion
\* throws, nothing is sent.
C27_OneReplyToSender ==
    /\ [][(task = NoTask /\ task' # NoTask /\ InFlight("c1")') =>
             /\ call'["c1"].userId = "o1"
             /\ call'["c1"].chatId = ChatKeyOf(http')
             /\ call'["c1"].prompt = http'.parsed.content]_vars
    /\ [](/\ Cardinality(MessagesSent) <= 1
          /\ \A j \in MessagesSent :
                /\ http.parsed.kind = "message"
                /\ call["c1"].pc = "returned"
                /\ wire[j].text = call["c1"].responseText
                /\ \E l \in bot_logs :
                      /\ l.request_payload.chatId = ChatKeyOf(http)
                      /\ l.response_payload = wire[j].text
                /\ wire[j].chatId = http.parsed.chatId
                /\ wire[j].platform = http.platform
          /\ call["c1"].pc = "threw" => MessagesSent = {})

\* The reply to a Telegram text from chat 7 was sent to chat 7.
C27_Witness ==
    /\ task # NoTask /\ task.pc = "done"
    /\ http.platform = "telegram" /\ http.parsed.content = "hi"
    /\ wire[2] = Outgoing("message", "telegram", "7", "ok")
    /\ \E l \in bot_logs :
          l.request_payload = [prompt |-> "hi", chatId |-> "telegram-7"]
             /\ l.response_payload = "ok"

----------------------------------------------------------------------------
(* C28 *)

\* The step serves a webhook POST.
ServesWebhook == http = NoRequest /\ http' # NoRequest /\ http'.route = "webhook"

\* The integration the POST names exists for the platform of its path and is
\* active.
GateOpen(h) ==
    \E r \in platform_integrations :
       r.id = h.id /\ r.platform = h.platform /\ r.status = "active"

\* C28: a webhook POST whose integration id is unknown, belongs to another
\* platform or is not active is answered 404 without parsing and changes
\* nothing else (no completion, no task, no send, no table); an integration is
\* created inactive; and a row becomes active only in a toggle or update
\* request of its owner for its id, so nothing is processed for a new
\* integration before such a request.
C28_IntegrationGate ==
    /\ [][(ServesWebhook /\ ~GateOpen(http')) =>
             /\ http'.status = 404 /\ http'.parsed = Unparsed
             /\ UNCHANGED <<call, task, wire, gemini_keys, memories, bot_logs,
                            personalities, platform_integrations>>]_vars
    /\ [][\A r \in platform_integrations' :
             (\A q \in platform_integrations : q.id # r.id) =>
                r.status = "inactive"]_vars
    /\ [][\A r \in platform_integrations' \ platform_integrations :
             r.status = "active" =>
                /\ admin' = admin + 1
                /\ \E route \in {"toggle", "update"} :
                      usage' = IntegrationRequest(route, r.user_id, r.id)]_vars
    /\ [](task # NoTask =>
             /\ http # NoRequest /\ http.route = "webhook" /\ http.status = 200
             /\ http.parsed.kind = "message")

\* o1 created the Telegram integration g1 and a message was posted to it at
\* once: 404, nothing parsed, nothing started.
C28_Witness ==
    /\ platform_integrations = {IntegrationRow("g1", "telegram", "inactive", "o1")}
    /\ http # NoRequest /\ http.route = "webhook" /\ http.status = 404
    /\ http.platform = "telegram" /\ http.id = "g1"
    /\ http.payload # Undefined /\ http.parsed = Unparsed
    /\ task = NoTask /\ call["c1"] = IdleCall /\ wire = <<>>

\* After the owner's toggle the same message is processed.
GateOpenedWitness ==
    /\ usage = IntegrationRequest("toggle", "o1", "g1")
    /\ http # NoRequest /\ http.status = 200 /\ http.id = "g1"
    /\ task # NoTask /\ task.pc = "done"

----------------------------------------------------------------------------
(* C30 *)

\* The step leaves every row of the six tables that belongs to an owner other
\* than userId as it is.
OthersUntouched(userId) ==
    /\ {r \in gemini_keys' : r.user_id # userId}
          = {r \in gemini_keys : r.user_id # userId}
    /\ {r \in memories' : r.user_id # userId} = {r \in memories : r.user_id # userId}
    /\ {r \in bot_logs' : r.user_id # userId} = {r \in bot_logs : r.user_id # userId}
    /\ {r \in personalities' : r.user_id # userId}
          = {r \in personalities : r.user_id # userId}
    /\ {r \in platform_integrations' : r.user_id # userId}
          = {r \in platform_integrations : r.user_id # userId}

\* An authenticated request of an owner leaves the rows of the others alone,
\* whatever id it names.
AdminIsolation ==
    [][admin' # admin => OthersUntouched(usage'[1].userId)]_vars

\* A call reads only its owner's credentials and memory.
ReadsOwnRows(c) ==
    (~InFlight(c) /\ InFlight(c)') =>
       /\ \A j \in 1..Len(call'[c].keys) :
             \E k \in gemini_keys : k.id = call'[c].keys[j]
                                      /\ k.user_id = call'[c].userId
       /\ call'[c].memoryRecord # NULL =>
             \E m \in memories : m.id = call'[c].memoryRecord
                                   /\ m.user_id = call'[c].userId

\* C30: every authenticated request of owner A leaves the rows of every other
\* owner unchanged, even when it names the id of one of their rows; and a
\* complete call of A reads only A's rows and changes only rows owned by A.
C30_OwnerIsolation ==
    /\ AdminIsolation
    /\ [][\A c \in Slots :
             /\ ReadsOwnRows(c)
             /\ (InFlight(c) /\ call'[c] # call[c]) =>
                   OthersUntouched(call[c].userId)]_vars

\* What holds of the calls as well: they read only their owner's rows.
ReadsIsolation == [][\A c \in Slots : ReadsOwnRows(c)]_vars

\* o1 asked to delete k4, a key of o2: the key is still there.
AdminIsolationWitness ==
    /\ usage = IntegrationRequest("delete-key", "o1", "k4")
    /\ KeyRow("k4", "o2", "active", NULL) \in gemini_keys

====
